---- MODULE Spec2Model ----
(***************************************************************************)
(* Model of vegavis/utils.py: probability_of_trading, its second copy     *)
(* cumulative_probability_of_trading, and num_from_padded_int.  All are    *)
(* pure functions; each gets a specification whose Init draws the          *)
(* arguments from bounded sets and whose actions apply the function.       *)
(*                                                                         *)
(* Python numbers are modelled exactly, as rationals n/d with d > 0.  A    *)
(* Python value is a record [kind, n, d]: kind "float" or "int" carries    *)
(* the rational n/d; "nan", "inf", "ninf" are the non-finite floats; and   *)
(* "TypeError" / "ValueError" stand for a call that raised.                *)
(***************************************************************************)
EXTENDS Integers, Sequences, FiniteSets

\* ---------------------------------------------------------------- bounds
\* Prices are the integers 1..MaxPrice.
MaxPrice == 3
\* The lognormal CDF takes the values 0/CdfScale .. CdfScale/CdfScale.
CdfScale == 3
\* Longest string handed to num_from_padded_int.
MaxStrLen == 3
\* Integers handed to num_from_padded_int are -MaxInt..MaxInt.
MaxInt == 3
\* decimals ranges over -1..MaxDecimals.
MaxDecimals == 2

\* ---------------------------------------------------------------- values
\* Optional[float]: None, or Some(x)
None == [some |-> FALSE, v |-> 0]
Some(x) == [some |-> TRUE, v |-> x]

Val(k, n, d) == [kind |-> k, n |-> n, d |-> d]
Float(n, d) == Val("float", n, d)
PyInt0 == Val("int", 0, 1)
NaN == Val("nan", 0, 1)
Inf == Val("inf", 0, 1)
NegInf == Val("ninf", 0, 1)
Raise(exc) == Val(exc, 0, 1)

IsNum(v) == v.kind \in {"float", "int"}
Raised(v) == v.kind \in {"TypeError", "ValueError"}

\* exact comparison of two finite values
NumLt(a, b) == a.n * b.d < b.n * a.d
NumLe(a, b) == a.n * b.d <= b.n * a.d
NumEq(a, b) == a.n * b.d = b.n * a.d

\* IEEE comparison a < b of two floats (False whenever a nan is involved)
FloatLt(a, b) ==
    CASE a.kind = "nan" \/ b.kind = "nan" -> FALSE
      [] a.kind = "ninf" -> b.kind # "ninf"
      [] a.kind = "inf" -> FALSE
      [] b.kind = "inf" -> TRUE
      [] b.kind = "ninf" -> FALSE
      [] OTHER -> NumLt(a, b)

\* a - b on floats that are finite or nan
FloatSub(a, b) ==
    IF a.kind = "nan" \/ b.kind = "nan" THEN NaN
    ELSE Float(a.n * b.d - b.n * a.d, a.d * b.d)

\* 0.5 * x / z on floats that are finite or nan; division by zero gives a
\* non-finite float (numpy float64 arithmetic, no exception)
HalfOver(x, z) ==
    LET num == x.n * z.d
        den == 2 * x.d * z.n
    IN  IF x.kind = "nan" \/ z.kind = "nan" THEN NaN
        ELSE IF den > 0 THEN Float(num, den)
        ELSE IF den < 0 THEN Float(-num, -den)
        ELSE IF num > 0 THEN Inf
        ELSE IF num < 0 THEN NegInf
        ELSE NaN

\* ------------------------------------------------- probability_of_trading
Side == {"SIDE_BUY", "SIDE_SELL"}
Prices == 1..MaxPrice
\* A pair of calls is drawn from one more price level: a window with z > 0
\* beside a price strictly inside the spread takes four levels.
MonoPrices == 1..(MaxPrice + 1)
OptPrices(P) == {Some(x) : x \in P} \cup {None}
\* min_probability_of_trading: 0, 1/4 and 3/4
MinProbs == {Float(0, 1), Float(1, 4), Float(3, 4)}
\* tau_scaling: absent, or 1.0
TauScalings == {None, Some(1)}
\* the risk parameters of a well-posed call
Mus == {0}
Taus == {1}
Sigmas == {1}
\* out-of-domain calls: zero among the prices, a supplied tau_scaling of
\* either sign, tau and sigma of any sign
DomainPrices == 0..(MaxPrice - 1)
DomainTauScalings == {Some(-1), Some(1)}
DomainTaus == {-1, 0, 1}
DomainSigmas == {-1, 1}
DomainMinProbs == {Float(1, 4)}

\* The CDF of lognorm(s=stdev, scale=exp(m)) with stdev > 0 on the price
\* grid, in units of 1/CdfScale: any nondecreasing function into [0, 1].
\* Among these, mu and the magnitudes of tau, sigma and tau_scaling only
\* select which function rv.cdf is.
Cdfs(P) == {f \in [P -> 0..CdfScale] :
               \A x \in P : \A y \in P : x <= y => f[x] <= f[y]}

Half == Float(1, 2)

\* tau * tau_scaling: float * None raises TypeError
TauTimesScaling(tau, ts) ==
    IF ts = None THEN Raise("TypeError") ELSE Val("float", tau * ts.v, 1)

\* mutant: the square root taken of the absolute value
SqrtOfAbs(x) == Val("float", 1, 1)

\* math.sqrt(x), up to the magnitude of a positive root: ValueError below 0
Sqrt(x) ==
    IF x.n < 0 THEN Raise("ValueError")
    ELSE IF x.n = 0 THEN Val("float", 0, 1)
    ELSE Val("float", 1, 1)

\* math.log(best_price): ValueError at or below 0; the value goes into m
Log(x) == IF x <= 0 THEN Raise("ValueError") ELSE Val("float", 0, 1)

\* rv.cdf(x): nan for a shape parameter s = stdev that is not positive
CdfAt(cdf, stdev, x) ==
    IF stdev.n > 0 THEN Float(cdf[x], CdfScale) ELSE NaN

\* the final clamp: if p < min_probability_of_trading ...
Clamp(p, mp) == IF FloatLt(p, mp) THEN mp ELSE p

\* mutant: best bid and best ask exchanged in the spread test
InSpreadSwapped(p, bb, ba) == p > ba /\ p < bb

InSpread(p, bb, ba) == p > bb /\ p < ba

\* mutant: the test against max_valid_price left out
OutOfBoundsNoUpper(p, minv, maxv) ==
    minv = None \/ maxv = None \/ p < minv.v

OutOfBounds(p, minv, maxv) ==
    minv = None \/ maxv = None \/ p < minv.v \/ p > maxv.v

probability_of_trading(sd, p, bb, ba, minv, maxv, mu, tau, sigma, mp, ts, cdf) ==
    IF InSpread(p, bb, ba) THEN Half
    ELSE IF OutOfBounds(p, minv, maxv) THEN mp
    ELSE LET best_price == IF sd = "SIDE_BUY" THEN bb ELSE ba
             lower_bound == IF sd = "SIDE_BUY" THEN minv.v ELSE ba
             upper_bound == IF sd = "SIDE_BUY" THEN bb ELSE maxv.v
             scaled == TauTimesScaling(tau, ts)
             root == Sqrt(scaled)
             stdev == Val("float", sigma * root.n, 1)
         IN  IF Raised(scaled) THEN scaled
             ELSE IF Raised(root) THEN root
             ELSE IF Raised(Log(best_price)) THEN Log(best_price)
             ELSE LET min == CdfAt(cdf, stdev, lower_bound)
                      max == CdfAt(cdf, stdev, upper_bound)
                      z == FloatSub(max, min)
                      num == IF sd = "SIDE_BUY"
                             THEN FloatSub(CdfAt(cdf, stdev, p), min)
                             ELSE FloatSub(max, CdfAt(cdf, stdev, p))
                  IN  Clamp(HalfOver(num, z), mp)

\* mutant: the copy without the floor
cumulative_unfloored(sd, p, bb, ba, minv, maxv, mu, tau, sigma, mp, ts, cdf) ==
    IF p > bb /\ p < ba THEN Half
    ELSE IF minv = None \/ maxv = None \/ p < minv.v \/ p > maxv.v THEN mp
    ELSE LET best_price == IF sd = "SIDE_BUY" THEN bb ELSE ba
             lower_bound == IF sd = "SIDE_BUY" THEN minv.v ELSE ba
             upper_bound == IF sd = "SIDE_BUY" THEN bb ELSE maxv.v
             scaled == TauTimesScaling(tau, ts)
             root == Sqrt(scaled)
             stdev == Val("float", sigma * root.n, 1)
         IN  IF Raised(scaled) THEN scaled
             ELSE IF Raised(root) THEN root
             ELSE IF Raised(Log(best_price)) THEN Log(best_price)
             ELSE LET min == CdfAt(cdf, stdev, lower_bound)
                      max == CdfAt(cdf, stdev, upper_bound)
                      z == FloatSub(max, min)
                      q == IF sd = "SIDE_BUY"
                           THEN HalfOver(FloatSub(CdfAt(cdf, stdev, p), min), z)
                           ELSE HalfOver(FloatSub(max, CdfAt(cdf, stdev, p)), z)
                  IN  q

\* the second copy of the function, translated from its own text
cumulative_probability_of_trading(sd, p, bb, ba, minv, maxv, mu, tau, sigma, mp, ts, cdf) ==
    IF p > bb /\ p < ba THEN Half
    ELSE IF minv = None \/ maxv = None \/ p < minv.v \/ p > maxv.v THEN mp
    ELSE LET best_price == IF sd = "SIDE_BUY" THEN bb ELSE ba
             lower_bound == IF sd = "SIDE_BUY" THEN minv.v ELSE ba
             upper_bound == IF sd = "SIDE_BUY" THEN bb ELSE maxv.v
             scaled == TauTimesScaling(tau, ts)
             root == Sqrt(scaled)
             stdev == Val("float", sigma * root.n, 1)
         IN  IF Raised(scaled) THEN scaled
             ELSE IF Raised(root) THEN root
             ELSE IF Raised(Log(best_price)) THEN Log(best_price)
             ELSE LET min == CdfAt(cdf, stdev, lower_bound)
                      max == CdfAt(cdf, stdev, upper_bound)
                      z == FloatSub(max, min)
                      q == IF sd = "SIDE_BUY"
                           THEN HalfOver(FloatSub(CdfAt(cdf, stdev, p), min), z)
                           ELSE HalfOver(FloatSub(max, CdfAt(cdf, stdev, p)), z)
                  IN  IF FloatLt(q, mp) THEN mp ELSE q

\* ---------------------------------------------------- num_from_padded_int
Digits == {"0", "1", "2"}
Alphabet == Digits \cup {"-", "+", ".", "x"}
Strings == UNION {[1..k -> Alphabet] : k \in 0..MaxStrLen}

DigitVal(c) == CASE c = "0" -> 0 [] c = "1" -> 1 [] c = "2" -> 2 [] OTHER -> -1

RECURSIVE DigitsToInt(_, _)
\* left-to-right accumulation of a digit string; -1 on a non-digit
DigitsToInt(s, acc) ==
    IF s = <<>> THEN acc
    ELSE IF DigitVal(Head(s)) < 0 THEN -1
    ELSE DigitsToInt(Tail(s), 10 * acc + DigitVal(Head(s)))

\* Python int(s) for a str: optional sign then one or more digits, else
\* ValueError
PyIntOfStr(s) ==
    LET signed == s # <<>> /\ Head(s) \in {"-", "+"}
        body == IF signed THEN Tail(s) ELSE s
        mag == IF body = <<>> THEN -1 ELSE DigitsToInt(body, 0)
    IN  IF mag < 0 THEN Raise("ValueError")
        ELSE IF signed /\ Head(s) = "-" THEN Val("int", -mag, 1)
        ELSE Val("int", mag, 1)

Arg(tag, s, n, d) == [tag |-> tag, s |-> s, n |-> n, d |-> d]
NoneArg == Arg("none", <<>>, 0, 1)
IntArgs == {Arg("int", <<>>, n, 1) : n \in (-MaxInt..MaxInt) \cup {12345}}
FloatArgs == {Arg("float", <<>>, n, 2) : n \in {-1, 0, 1, 5}}
StrArgs == {Arg("str", s, 0, 1) : s \in Strings}
ToConvert == {NoneArg} \cup IntArgs \cup FloatArgs \cup StrArgs
Decimals == -1..MaxDecimals

RECURSIVE Pow10(_)
Pow10(k) == IF k <= 0 THEN 1 ELSE 10 * Pow10(k - 1)

\* mutant: only None is taken as absent ("if to_convert is None")
TruthyNotNone(a) == a.tag # "none"

\* Python truth value of the argument: None, 0, 0.0 and "" are falsy
Truthy(a) ==
    CASE a.tag = "none" -> FALSE
      [] a.tag = "str" -> a.s # <<>>
      [] OTHER -> a.n # 0

\* mutant: multiplication in place of division
ScaleUp(v, dec) ==
    IF dec >= 0 THEN Float(v.n * Pow10(dec), v.d)
    ELSE Float(v.n, v.d * Pow10(-dec))

\* float(to_convert) / 10**decimals
ScaleDown(v, dec) ==
    IF dec >= 0 THEN Float(v.n, v.d * Pow10(dec))
    ELSE Float(v.n * Pow10(-dec), v.d)

num_from_padded_int(a, dec) ==
    IF ~Truthy(a) THEN PyInt0
    ELSE LET conv == IF a.tag = "str" THEN PyIntOfStr(a.s)
                     ELSE Val(a.tag, a.n, a.d)
         IN  IF Raised(conv) THEN conv ELSE ScaleDown(conv, dec)

\* ------------------------------------------------------------------ state
VARIABLES side, price, best_bid_price, best_ask_price, min_valid_price,
          max_valid_price, mu, tau, sigma, min_probability_of_trading,
          tau_scaling, rv, pc, result, cum_result, prev_price, prev_result,
          to_convert, decimals, num_result

\* the arguments other than price, and the CDF they select
context == <<side, best_bid_price, best_ask_price, min_valid_price,
             max_valid_price, mu, tau, sigma, min_probability_of_trading,
             tau_scaling, rv>>
pvars == <<context, price, pc, result, cum_result, prev_price, prev_result>>
nvars == <<to_convert, decimals, num_result>>
vars == <<pvars, nvars>>

NoResult == Val("none", 0, 1)

NumIdle ==
    /\ to_convert = NoneArg
    /\ decimals = 0
    /\ num_result = NoResult

ProbIdle ==
    /\ side = "SIDE_BUY"
    /\ price = 1
    /\ best_bid_price = 1
    /\ best_ask_price = 1
    /\ min_valid_price = None
    /\ max_valid_price = None
    /\ mu = 0
    /\ tau = 1
    /\ sigma = 1
    /\ min_probability_of_trading = Float(0, 1)
    /\ tau_scaling = None
    /\ rv = [x \in Prices |-> 0]
    /\ pc = "idle"
    /\ result = NoResult
    /\ cum_result = NoResult
    /\ prev_price = None
    /\ prev_result = NoResult

ProbInit(P, T, Sg, Mp, Ts) ==
    /\ side \in Side
    /\ price \in P
    /\ best_bid_price \in P
    /\ best_ask_price \in P
    /\ min_valid_price \in OptPrices(P)
    /\ max_valid_price \in OptPrices(P)
    /\ mu \in Mus
    /\ tau \in T
    /\ sigma \in Sg
    /\ min_probability_of_trading \in Mp
    /\ tau_scaling \in Ts
    /\ rv \in Cdfs(P)
    /\ pc = "start"
    /\ result = NoResult
    /\ cum_result = NoResult
    /\ prev_price = None
    /\ prev_result = NoResult

Pot(p) == probability_of_trading(side, p, best_bid_price, best_ask_price,
                                 min_valid_price, max_valid_price, mu, tau,
                                 sigma, min_probability_of_trading,
                                 tau_scaling, rv)

\* the call probability_of_trading(side, price, ...)
Call ==
    /\ pc = "start"
    /\ result' = Pot(price)
    /\ pc' = "done"
    /\ UNCHANGED <<context, price, cum_result, prev_price, prev_result>>
    /\ UNCHANGED nvars

\* the call cumulative_probability_of_trading(side, price, ...) with the
\* same arguments
CallCumulative ==
    /\ pc = "done"
    /\ cum_result' = cumulative_probability_of_trading(side, price,
                         best_bid_price, best_ask_price, min_valid_price,
                         max_valid_price, mu, tau, sigma,
                         min_probability_of_trading, tau_scaling, rv)
    /\ pc' = "both"
    /\ UNCHANGED <<context, price, result, prev_price, prev_result>>
    /\ UNCHANGED nvars

\* a second call with another price and all other arguments as before
Reprice ==
    /\ pc = "done"
    /\ \E p \in DOMAIN rv :
          /\ price' = p
          /\ result' = Pot(p)
    /\ prev_price' = Some(price)
    /\ prev_result' = result
    /\ pc' = "again"
    /\ UNCHANGED <<context, cum_result>>
    /\ UNCHANGED nvars

Init == ProbInit(Prices, Taus, Sigmas, MinProbs, TauScalings) /\ NumIdle
Next == Call
Spec == Init /\ [][Next]_vars

InitMono ==
    ProbInit(MonoPrices, Taus, Sigmas, MinProbs, TauScalings) /\ NumIdle
NextMono == Call \/ Reprice
SpecMono == InitMono /\ [][NextMono]_vars

InitDomain ==
    ProbInit(DomainPrices, DomainTaus, DomainSigmas, DomainMinProbs,
             DomainTauScalings) /\ NumIdle
NextDomain == Call
SpecDomain == InitDomain /\ [][NextDomain]_vars

NextBoth == Call \/ CallCumulative
SpecBoth == Init /\ [][NextBoth]_vars

NumInit ==
    /\ to_convert \in ToConvert
    /\ decimals \in Decimals
    /\ num_result = NoResult

\* the call num_from_padded_int(to_convert, decimals)
Convert ==
    /\ num_result = NoResult
    /\ num_result' = num_from_padded_int(to_convert, decimals)
    /\ UNCHANGED <<to_convert, decimals>>
    /\ UNCHANGED pvars

InitNum == ProbIdle /\ NumInit
NextNum == Convert
SpecNum == InitNum /\ [][NextNum]_vars

\* ------------------------------------------- properties: probability
PriceInSpread == best_bid_price < price /\ price < best_ask_price
BoundAbsent == min_valid_price = None \/ max_valid_price = None
PriceOutOfBounds ==
    BoundAbsent \/ price < min_valid_price.v \/ price > max_valid_price.v
\* the call went past both early returns
DistributionBranch == ~PriceInSpread /\ ~PriceOutOfBounds

\* z = CDF(upper_bound) - CDF(lower_bound) of the call's window
WindowZ ==
    IF side = "SIDE_BUY" THEN rv[best_bid_price] - rv[min_valid_price.v]
    ELSE rv[max_valid_price.v] - rv[best_ask_price]
\* well-posed: wherever the distribution branch is reached, z > 0
WellPosed == DistributionBranch => WindowZ > 0

C2_Original ==
    (pc = "done" /\ PriceOutOfBounds) => result = min_probability_of_trading

\* C2 amended: whenever the price is not strictly inside the spread and a
\* monitoring bound is absent or the price is outside
\* [min_valid_price, max_valid_price], the result is exactly
\* min_probability_of_trading.
C2_FloorOutsideBounds ==
    (pc = "done" /\ ~PriceInSpread /\ PriceOutOfBounds)
        => result = min_probability_of_trading

C2_Witness ==
    /\ pc = "done"
    /\ ~PriceInSpread
    /\ min_valid_price # None
    /\ max_valid_price # None
    /\ price > max_valid_price.v
    /\ tau_scaling = None
    /\ min_probability_of_trading = Float(1, 4)
    /\ result = Float(1, 4)

\* C3: a call without tau_scaling that reaches the distribution branch
\* does not fail and returns what the same call with tau_scaling = 1.0
\* returns.
C3_TauScalingDefault ==
    (pc = "done" /\ tau_scaling = None /\ DistributionBranch)
        => /\ ~Raised(result)
           /\ result = probability_of_trading(side, price, best_bid_price,
                          best_ask_price, min_valid_price, max_valid_price,
                          mu, tau, sigma, min_probability_of_trading,
                          Some(1), rv)

\* C4: with a well-posed window, a returned value is never less than
\* min_probability_of_trading, on any of the three return paths.
C4_NeverBelowFloor ==
    (pc = "done" /\ WellPosed /\ IsNum(result))
        => ~NumLt(result, min_probability_of_trading)

\* C5: for a price within [min_valid_price, max_valid_price], a window
\* with z > 0 and min_probability_of_trading <= 1, a returned value is at
\* most 1.0.
C5_AtMostOne ==
    (pc = "done" /\ ~PriceOutOfBounds /\ WellPosed /\ IsNum(result)
       /\ NumLe(min_probability_of_trading, Float(1, 1)))
        => NumLe(result, Float(1, 1))

\* both calls of a pair had their price within the monitoring bounds
BothWithinBounds ==
    /\ prev_price # None
    /\ ~PriceOutOfBounds
    /\ min_valid_price.v <= prev_price.v
    /\ prev_price.v <= max_valid_price.v

\* z of the window, which does not depend on the price
PairZPositive ==
    /\ min_valid_price # None
    /\ max_valid_price # None
    /\ WindowZ > 0

\* C6: with z > 0, for two prices p1 <= p2 within the bounds and all other
\* arguments equal, BUY gives result(p1) <= result(p2) and SELL gives
\* result(p1) >= result(p2).
C6_Monotone ==
    (pc = "again" /\ BothWithinBounds /\ PairZPositive
       /\ IsNum(prev_result) /\ IsNum(result) /\ prev_price.v <= price)
        => IF side = "SIDE_BUY" THEN NumLe(prev_result, result)
           ELSE NumLe(result, prev_result)

\* the anchor of the distribution: best bid for BUY, best ask for SELL
AnchorPrice == IF side = "SIDE_BUY" THEN best_bid_price ELSE best_ask_price

\* C9 as stated: with tau_scaling supplied, the call returns a value and
\* raises nothing, whatever the sign of sigma, tau, tau_scaling, z or the
\* anchor price.
C9_Original ==
    (pc = "done" /\ tau_scaling # None) => ~Raised(result)

\* C9 amended: with tau_scaling supplied the call raises, and then
\* ValueError, exactly when it reaches the distribution branch with
\* tau * tau_scaling < 0 or with an anchor price <= 0; every other call
\* returns a value.
C9_RaisesOnlyOnSqrtOrLog ==
    (pc = "done" /\ tau_scaling # None)
        => /\ Raised(result)
                 <=> /\ DistributionBranch
                     /\ tau * tau_scaling.v < 0 \/ AnchorPrice <= 0
           /\ Raised(result) => result.kind = "ValueError"

C9_Witness ==
    /\ pc = "done"
    /\ DistributionBranch
    /\ tau = -1
    /\ tau_scaling = Some(1)
    /\ sigma = 1
    /\ AnchorPrice > 0
    /\ result = Raise("ValueError")

\* C10: called with the same arguments, cumulative_probability_of_trading
\* and probability_of_trading have the same outcome: the same returned
\* value, or the same failure.
C10_SameOutcome ==
    pc = "both" => cum_result = result

C10_Witness ==
    /\ pc = "both"
    /\ DistributionBranch
    /\ tau_scaling = Some(1)
    /\ WindowZ > 0
    /\ NumLt(min_probability_of_trading, result)
    /\ NumLt(result, Half)
    /\ cum_result = result

\* ----------------------------------------------- properties: conversion
Converted == num_result # NoResult

\* an optional sign followed by one or more digits
IsIntString(s) ==
    /\ s # <<>>
    /\ LET first == IF s[1] \in {"-", "+"} THEN 2 ELSE 1
       IN  /\ first <= Len(s)
           /\ \A i \in first..Len(s) : s[i] \in Digits

RECURSIVE PlaceSum(_, _)
\* positional value of the digits s[i..Len(s)]
PlaceSum(s, i) ==
    IF i > Len(s) THEN 0
    ELSE DigitVal(s[i]) * Pow10(Len(s) - i) + PlaceSum(s, i + 1)

\* the integer an integer string denotes
IntStringValue(s) ==
    IF s[1] = "-" THEN -PlaceSum(s, 2)
    ELSE IF s[1] = "+" THEN PlaceSum(s, 2)
    ELSE PlaceSum(s, 1)

\* digits with at most one decimal point, after an optional sign
IsNumericString(s) ==
    /\ s # <<>>
    /\ LET first == IF s[1] \in {"-", "+"} THEN 2 ELSE 1
       IN  /\ \E i \in first..Len(s) : s[i] \in Digits
           /\ \A i \in first..Len(s) : s[i] \in Digits \cup {"."}
           /\ Cardinality({i \in first..Len(s) : s[i] = "."}) <= 1

\* to_convert is zero, falsy or absent: None, 0, 0.0 or ""
ZeroOrAbsent ==
    \/ to_convert.tag = "none"
    \/ to_convert.tag \in {"int", "float"} /\ to_convert.n = 0
    \/ to_convert.tag = "str" /\ to_convert.s = <<>>

\* C7: for non-negative decimals, an integer or integer string to_convert
\* gives to_convert / 10^decimals, and a zero, falsy or absent to_convert
\* gives the integer 0 with no division.
C7_ScaledValue ==
    (Converted /\ decimals >= 0)
        => /\ ZeroOrAbsent => num_result = PyInt0
           /\ (to_convert.tag = "int" /\ to_convert.n # 0)
                 => /\ num_result.kind = "float"
                    /\ NumEq(num_result,
                             Float(to_convert.n, Pow10(decimals)))
           /\ (to_convert.tag = "str" /\ IsIntString(to_convert.s))
                 => /\ num_result.kind = "float"
                    /\ NumEq(num_result,
                             Float(IntStringValue(to_convert.s),
                                   Pow10(decimals)))

C7_Witness ==
    /\ Converted
    /\ to_convert = Arg("int", <<>>, 12345, 1)
    /\ decimals = 2
    /\ num_result = Float(12345, 100)

\* C8 as stated: the call returns for every number and every string
\* denoting a number, decimal point included, and fails for every
\* non-numeric string.
C8_Original ==
    Converted
        => /\ (to_convert.tag # "str" \/ IsNumericString(to_convert.s))
                 => ~Raised(num_result)
           /\ (to_convert.tag = "str" /\ to_convert.s # <<>>
                 /\ ~IsNumericString(to_convert.s))
                 => Raised(num_result)

\* C8 amended: the call fails, with ValueError, exactly when to_convert is
\* a non-empty string that is not an optionally signed run of digits; this
\* includes numeric strings with a decimal point.
C8_FailsOnlyOnNonIntegerString ==
    Converted
        => /\ Raised(num_result)
                 <=> /\ to_convert.tag = "str"
                     /\ to_convert.s # <<>>
                     /\ ~IsIntString(to_convert.s)
           /\ Raised(num_result) => num_result.kind = "ValueError"

C8_Witness ==
    /\ Converted
    /\ to_convert = Arg("str", <<"1", ".", "2">>, 0, 1)
    /\ num_result = Raise("ValueError")

====
